---- MODULE Spec2Model ----
(***************************************************************************)
(* The persistent scheduled-task engine of message_ai_service.py: the      *)
(* scheduled_tasks table, the in-memory job store of the scheduler, the    *)
(* steps of execute_scheduled_task, the REST handlers create_task and      *)
(* delete_task, the reminder flow of process_message, and the start-up     *)
(* pass load_scheduled_tasks.                                              *)
(*                                                                         *)
(* Time is counted in minutes.  A nullable column is a sequence of length  *)
(* at most one (NULL is the empty sequence).  A text is a sequence of      *)
(* words.  A job id "task_N" is <<N>>, "task_N_<run time>" is <<N, t>>.    *)
(***************************************************************************)
EXTENDS Integers, Sequences, FiniteSets, Bags, TLC

\* ---------------------------------------------------------------- bounds
MaxTasks == 2
MaxTime == 3
MaxAhead == 1
\* the day number of time 0 of the model (2026-01-01), and a recurring_value
\* of some eleven thousand years when counted in days
EpochDay == 739617
HugeValue == 4000000

\* ------------------------------------------------------- program constants
MinutesPerHour == 60
MinutesPerDay == 1440
MinutesPerWeek == 10080
MonthDays == 30
\* timedelta.max.days and datetime.max.toordinal()
TimedeltaMaxDays == 999999999
DatetimeMaxDay == 3652059

NULL == <<>>
Some(x) == <<x>>
IsNull(v) == v = <<>>
Val(v) == v[1]

Contacts == {"alice"}

\* Words a text is made of.  "hello" is a text in which no task is detected,
\* "ask" one in which detect_and_execute_agent_task finds a query it
\* answers, "1.2.3" a dotted number followed by a unit and one of the
\* conversion words, which detect_compound_task matches.
ReminderPrefix == "prefix"
PlainTexts == {<<"hello">>, <<"ask">>, <<"1.2.3">>}

RecurringTypes == {"minutely", "hourly", "daily", "weekly", "monthly"}
TaskTypes == {"weather", "news", "reminder", "search", "calculate", "translate"}
\* the types a stored rule may have: the five the recurrence branch knows and
\* one it does not
RuleTypes == RecurringTypes \cup {"yearly"}

VARIABLES
    now,              \* datetime.now(), in minutes
    scheduled_tasks,  \* the scheduled_tasks table: id -> row
    next_id,          \* the AUTOINCREMENT sequence of the table
    jobs,             \* the scheduler's MemoryJobStore
    running,          \* executions of execute_scheduled_task in the pool
    sent,             \* bag of send_imessage calls made by fired tasks
    has_callback,     \* hasattr(config, 'create_scheduled_task')
    deleted,          \* ids for which delete_task has returned success
    fired,            \* id -> number of executions that found the task's row
    missed,           \* ids of the executions that found no row
    result,           \* the last call of a function tried on its own, with its outcome
    pool,             \* the scheduler's ThreadPoolExecutor: work queue and workers
    chat_db,          \* chat.db's message table: the dates of the rows with a text
    wall_time,        \* time.time(), counted in cooldowns of the file handler
    event_queue,      \* the number of 'database_changed' events in the queue
    last_event_time,  \* iMessageDatabaseHandler.last_event_time
    db_thread,        \* the DatabaseThread: its position, watermark and locals
    delivered         \* the batches the DatabaseThread has passed to its callback

\* the message-arrival feed of imessage_reader.py
reader_vars == <<chat_db, wall_time, event_queue, last_event_time, db_thread, delivered>>

vars == <<now, scheduled_tasks, next_id, jobs, running, sent, has_callback, deleted, fired,
          missed, result, pool, reader_vars>>

\* all but result
service_vars == <<now, scheduled_tasks, next_id, jobs, running, sent, has_callback, deleted,
                  fired, missed, pool, reader_vars>>

Ids == DOMAIN scheduled_tasks

\* ---------------------------------------------------------------- scheduler

\* f"task_{task_id}" if not is_recurring else f"task_{task_id}_{run time}"
JobId(task_id, is_recurring, run_time) ==
    IF is_recurring THEN <<task_id, run_time>> ELSE <<task_id>>

Job(id, run_date, task_id, contact, message) ==
    [id |-> id, run_date |-> run_date,
     args |-> [task_id |-> task_id, contact |-> contact, message |-> message]]

\* scheduler.add_job: a job whose id is already in the store is refused
\* (ConflictingIdError)
add_job(store, job) ==
    IF \E k \in store : k.id = job.id THEN store ELSE store \cup {job}

\* scheduler.remove_job: removes the job with that id (JobLookupError, which
\* the caller swallows, when there is none)
remove_job(store, job_id) == {k \in store : k.id # job_id}

\* A trigger that stays in the store after it has run (an interval trigger)
interval_trigger_done(store, job) == store

\* trigger 'date': the job leaves the store when its run date has come and it
\* has been handed to the pool
date_trigger_done(store, job) == store \ {job}

JobsOf(task_id) == {k \in jobs : k.args.task_id = task_id}

\* -------------------------------------------------------------------- store

\* MessageDB.add_scheduled_task followed by the INSERT's column defaults
NewRow(contact, message, scheduled_time, is_recurring, recurring_type, recurring_value, next_run_time, task_type, task_params) ==
    [contact |-> contact, message |-> message,
     scheduled_time |-> scheduled_time, created_at |-> now,
     executed |-> FALSE, job_id |-> NULL,
     is_recurring |-> is_recurring, recurring_type |-> recurring_type,
     recurring_value |-> recurring_value, next_run_time |-> next_run_time,
     task_type |-> task_type, task_params |-> task_params]

\* A plain INTEGER PRIMARY KEY: the id after the largest id now in the table,
\* so the id of a deleted last row is given out again
AllocateIdReused(table, seq) ==
    IF DOMAIN table = {} THEN 1
    ELSE 1 + (CHOOSE i \in DOMAIN table : \A k \in DOMAIN table : k <= i)

\* id INTEGER PRIMARY KEY AUTOINCREMENT: the id of the next INSERT is the
\* successor of the largest id the table ever held (seq is that successor)
AllocateId(table, seq) == seq

Insert(table, id, row) == [i \in DOMAIN table \cup {id} |-> IF i = id THEN row ELSE table[i]]

\* MessageDB.delete_task
DeleteRow(table, id) == [i \in DOMAIN table \ {id} |-> table[i]]

\* An UPDATE ... SET executed = 1 that has lost its WHERE clause
mark_task_executed_unfiltered(table, id) ==
    [i \in DOMAIN table |-> [table[i] EXCEPT !.executed = TRUE]]

\* MessageDB.mark_task_executed: UPDATE ... WHERE id = ?
mark_task_executed(table, id) ==
    IF id \in DOMAIN table THEN [table EXCEPT ![id].executed = TRUE] ELSE table

\* MessageDB.update_task_job_id
update_task_job_id(table, id, job_id) ==
    IF id \in DOMAIN table THEN [table EXCEPT ![id].job_id = Some(job_id)] ELSE table

\* UPDATE scheduled_tasks SET next_run_time = ? WHERE id = ?
update_next_run_time(table, id, t) ==
    IF id \in DOMAIN table THEN [table EXCEPT ![id].next_run_time = Some(t)] ELSE table

\* c.lastrowid of the INSERT about to be made
NewId == AllocateId(scheduled_tasks, next_id)

\* create_scheduled_task: persist, arm, record the job id.  Yields the new
\* table and job store; the new id is next_id.
create_scheduled_task_row(contact, message, scheduled_time, is_recurring, recurring_type, recurring_value, task_type, task_params) ==
    NewRow(contact, <<ReminderPrefix>> \o message, scheduled_time, is_recurring,
           recurring_type, recurring_value,
           IF is_recurring THEN Some(scheduled_time) ELSE NULL,
           task_type, task_params)

create_scheduled_task_table(table, id, row) ==
    update_task_job_id(Insert(table, id, row), id,
                       JobId(id, row.is_recurring, row.scheduled_time))

create_scheduled_task_jobs(store, id, row) ==
    add_job(store, Job(JobId(id, row.is_recurring, row.scheduled_time),
                       row.scheduled_time, id, row.contact, row.message))

\* iMessageDatabaseHandler.cooldown, 0.5 s: the unit wall_time is counted in
Cooldown == 1

\* --------------------------------------------------------------------- Init
Init ==
    /\ now = 0
    /\ scheduled_tasks = <<>>
    /\ next_id = 1
    /\ jobs = {}
    /\ running = {}
    /\ sent = EmptyBag
    /\ has_callback = FALSE
    /\ deleted = {}
    /\ fired = [i \in 1..MaxTasks |-> 0]
    /\ missed = {}
    /\ result = [op |-> "none"]
    /\ pool = [clock |-> 0, submitted |-> 0, work_queue |-> <<>>, executing |-> 0, skipped |-> 0]
    /\ chat_db = {}
    /\ wall_time = Cooldown
    /\ event_queue = 0
    /\ last_event_time = 0
    /\ db_thread = [pc |-> "start", last_message_date |-> NULL, current_latest_date |-> NULL,
                    initial_date |-> NULL]
    /\ delivered = <<>>

\* ------------------------------------------------------------------- clock
Tick ==
    /\ now < MaxTime
    /\ now' = now + 1
    /\ UNCHANGED <<scheduled_tasks, next_id, jobs, running, sent, has_callback, deleted, fired, missed, result, pool, reader_vars>>

\* ------------------------------------------------------- POST /scheduled_tasks
\* Python truthiness of an optional number: None and 0 are false
Truthy(v) == ~IsNull(v) /\ Val(v) # 0

DefaultMessage == <<"auto">>
DefaultParams == "default"

\* The request bodies tried: data.get(...) of each field, NULL when absent;
\* scheduled_time is the parsed time.  Request(...) is one JSON body.
Request(contact, message, scheduled_time, is_recurring, recurring_type, recurring_value, task_type, task_params) ==
    [contact |-> contact, message |-> message, scheduled_time |-> scheduled_time,
     is_recurring |-> is_recurring, recurring_type |-> recurring_type,
     recurring_value |-> recurring_value,
     task_type |-> task_type, task_params |-> task_params]

\* (message, task_type, task_params) of the well-formed requests
ContentShapes ==
    { <<Some(m), NULL, NULL>> : m \in PlainTexts }
    \cup { <<Some(<<"hello">>), Some("reminder"), Some("json")>> }

OneShotRequests ==
    { Request(Some(c), k[1], Some(now + d), FALSE, NULL, NULL, k[2], k[3]) :
        c \in Contacts, k \in ContentShapes, d \in 1..MaxAhead }

\* (recurring_type, recurring_value) of the well-formed recurring requests
RecurrenceRules == {<<"minutely", 1>>, <<"hourly", 2>>}

RecurringRequests ==
    { Request(Some(c), Some(<<"hello">>), Some(now + d), TRUE, Some(r[1]), Some(r[2]),
              NULL, NULL) :
        c \in Contacts, d \in 1..MaxAhead, r \in RecurrenceRules }

WellFormedRequests == OneShotRequests \cup RecurringRequests

\* one request per way of being refused, and one with no message at all
OddRequests ==
    LET t == Some(now + 1)
        m == Some(<<"hello">>)
        c == Some("alice")
    IN  { Request(NULL, m, t, FALSE, NULL, NULL, NULL, NULL),
          Request(c, m, NULL, FALSE, NULL, NULL, NULL, NULL),
          Request(c, NULL, t, FALSE, NULL, NULL, NULL, NULL),
          Request(c, NULL, t, FALSE, NULL, NULL, Some("weather"), NULL),
          Request(c, m, Some(now), FALSE, NULL, NULL, NULL, NULL),
          Request(c, m, Some(now), TRUE, Some("minutely"), Some(1), NULL, NULL),
          Request(c, m, t, TRUE, Some("yearly"), Some(1), NULL, NULL),
          Request(c, m, t, TRUE, NULL, Some(1), NULL, NULL),
          Request(c, m, t, TRUE, Some("minutely"), NULL, NULL, NULL),
          Request(c, m, t, TRUE, Some("minutely"), Some(0), NULL, NULL),
          Request(c, m, t, TRUE, Some("minutely"), Some(0 - 1), NULL, NULL),
          Request(c, m, t, FALSE, NULL, NULL, Some("bogus"), NULL),
          Request(c, NULL, t, TRUE, Some("daily"), Some(1), Some("bogus"), Some("json")) }

CreateRequests == WellFormedRequests \cup OddRequests

\* create_task with the comparison of the time to now made strict
create_task_check_lax(req) ==
    IF IsNull(req.contact) \/ IsNull(req.scheduled_time) THEN "missing"
    ELSE IF IsNull(req.message) /\ IsNull(req.task_type) THEN "no_content"
    ELSE IF Val(req.scheduled_time) < now THEN "not_future"
    ELSE IF req.is_recurring
            /\ (IsNull(req.recurring_type) \/ ~Truthy(req.recurring_value))
         THEN "recurring_missing"
    ELSE IF req.is_recurring /\ Val(req.recurring_type) \notin RecurringTypes
         THEN "recurring_type"
    ELSE IF req.is_recurring /\ Val(req.recurring_value) <= 0 THEN "recurring_value"
    ELSE IF ~IsNull(req.task_type) /\ Val(req.task_type) \notin TaskTypes
         THEN "task_type"
    ELSE "ok"

\* The checks of create_task, in the order of the code: the first that fails
\* gives the error, "ok" when the request goes on to create_scheduled_task.
create_task_check(req) ==
    IF IsNull(req.contact) \/ IsNull(req.scheduled_time) THEN "missing"
    ELSE IF IsNull(req.message) /\ IsNull(req.task_type) THEN "no_content"
    ELSE IF Val(req.scheduled_time) <= now THEN "not_future"
    ELSE IF req.is_recurring
            /\ (IsNull(req.recurring_type) \/ ~Truthy(req.recurring_value))
         THEN "recurring_missing"
    ELSE IF req.is_recurring /\ Val(req.recurring_type) \notin RecurringTypes
         THEN "recurring_type"
    ELSE IF req.is_recurring /\ Val(req.recurring_value) <= 0 THEN "recurring_value"
    ELSE IF ~IsNull(req.task_type) /\ Val(req.task_type) \notin TaskTypes
         THEN "task_type"
    ELSE "ok"

\* task_params after the weather/news defaults
create_task_params(req) ==
    IF ~IsNull(req.task_type) /\ Val(req.task_type) \in {"weather", "news"}
       /\ IsNull(req.task_params)
    THEN Some(DefaultParams) ELSE req.task_params

create_task_row(req) ==
    create_scheduled_task_row(
        Val(req.contact),
        IF IsNull(req.message) THEN DefaultMessage ELSE Val(req.message),
        Val(req.scheduled_time), req.is_recurring, req.recurring_type,
        req.recurring_value, req.task_type, create_task_params(req))

\* the table and the job store when create_task returns: those of
\* create_scheduled_task when every check passes, else as they were (the 400
\* responses return before anything is written)
create_task_table(req) ==
    IF create_task_check(req) = "ok"
    THEN create_scheduled_task_table(scheduled_tasks, NewId, create_task_row(req))
    ELSE scheduled_tasks

create_task_jobs(req) ==
    IF create_task_check(req) = "ok"
    THEN create_scheduled_task_jobs(jobs, NewId, create_task_row(req))
    ELSE jobs

create_task(req) ==
    /\ create_task_check(req) = "ok" => NewId <= MaxTasks
    /\ scheduled_tasks' = create_task_table(req)
    /\ jobs' = create_task_jobs(req)
    /\ next_id' = IF create_task_check(req) = "ok" THEN NewId + 1 ELSE next_id
    /\ UNCHANGED <<now, running, sent, has_callback, deleted, fired, missed, result, pool, reader_vars>>

CreateTask == \E req \in CreateRequests : create_task(req)

\* --------------------------------------------------- execute_scheduled_task
\* The next run time of a recurring task, from the time the fire is processed;
\* NULL for a type that is none of the five (next_time = None)
\* timedelta(days=..., hours=..., minutes=...) keeps whole days and a rest:
\* the days of the interval of a rule, and its rest in minutes
DeltaDays(recurring_type, recurring_value) ==
    IF recurring_type = "daily" THEN recurring_value
    ELSE IF recurring_type = "weekly" THEN 7 * recurring_value
    ELSE IF recurring_type = "monthly" THEN MonthDays * recurring_value
    ELSE IF recurring_type = "hourly" THEN recurring_value \div 24
    ELSE recurring_value \div MinutesPerDay

DeltaRest(recurring_type, recurring_value) ==
    IF recurring_type = "hourly" THEN MinutesPerHour * (recurring_value % 24)
    ELSE IF recurring_type = "minutely" THEN recurring_value % MinutesPerDay
    ELSE 0

\* The day number (date.toordinal()) of a time of the model
DayOf(t) == EpochDay + (t \div MinutesPerDay)

\* OverflowError of the next_time computation: the timedelta has more days
\* than timedelta.max, or current_time + timedelta lies after datetime.max
RecurrenceRaises(recurring_type, recurring_value, current_time) ==
    /\ recurring_type \in RecurringTypes
    /\ \/ DeltaDays(recurring_type, recurring_value) > TimedeltaMaxDays
       \/ DayOf(current_time) + DeltaDays(recurring_type, recurring_value)
             + (((current_time % MinutesPerDay) + DeltaRest(recurring_type, recurring_value))
                   \div MinutesPerDay)
            > DatetimeMaxDay

\* next_time when the computation does not raise
RecurrenceNext(recurring_type, recurring_value, current_time) ==
    IF recurring_type = "daily" THEN Some(current_time + MinutesPerDay * recurring_value)
    ELSE IF recurring_type = "weekly" THEN Some(current_time + MinutesPerWeek * recurring_value)
    ELSE IF recurring_type = "monthly"
         THEN Some(current_time + MinutesPerDay * (MonthDays * recurring_value))
    ELSE IF recurring_type = "hourly" THEN Some(current_time + MinutesPerHour * recurring_value)
    ELSE IF recurring_type = "minutely" THEN Some(current_time + recurring_value)
    ELSE NULL

\* is_recurring and recurring_type and recurring_value
IsRecurringRow(row) ==
    row.is_recurring /\ ~IsNull(row.recurring_type) /\ Truthy(row.recurring_value)

TaskOf(e) == e.job.args.task_id

\* detect_compound_task: float() of a dotted number such as 1.2.3 raises
DetectionRaises(message) == \E i \in 1..Len(message) : message[i] = "1.2.3"

\* detect_and_execute_agent_task returns a text, not None
DetectionAnswers(message) == \E i \in 1..Len(message) : message[i] = "ask"

AgentReply(kind) == <<"reply", kind>>
ReminderSet == <<"reminder_set">>

\* An execution that has read its row and holds the text to send
Execution(j, row, response) ==
    [job |-> j, row |-> row, pc |-> "send", response |-> Some(response), next_time |-> NULL]

\* The texts the two handlers of a failed capability put in place of its
\* answer: "decode" from the except of execute_scheduled_task, "execute" from
\* the except of execute_agent_task
ErrorText(stage) == <<"error", stage>>

\* task_params as stored: "notjson" is a text json.loads rejects, "nonobject"
\* a JSON text that is no object (params.get then raises AttributeError);
\* every other value decodes to an object.
Undecodable(task_params) == task_params = Some("notjson")
NotAnObject(task_params) == task_params = Some("nonobject")

\* execute_agent_task(task_type, params, contact, config): the answer of the
\* agent; whatever the branch of a known type raises is caught and returned
\* as a text.  A type outside the list touches no params.
execute_agent_task(task_type, task_params) ==
    IF task_type \in TaskTypes /\ NotAnObject(task_params)
    THEN ErrorText("execute") ELSE AgentReply(task_type)

\* A capability whose failure is not caught: the execution ends without a text
CapabilityTextUncaught(row) ==
    IF Undecodable(row.task_params) \/ (Val(row.task_type) \in TaskTypes /\ NotAnObject(row.task_params))
    THEN NULL ELSE Some(AgentReply(Val(row.task_type)))

\* The try block of the capability branch: json.loads of the stored params,
\* then the executor; any exception becomes the error text.
CapabilityText(row) ==
    IF Undecodable(row.task_params) THEN Some(ErrorText("decode"))
    ELSE Some(execute_agent_task(Val(row.task_type), row.task_params))

\* What the dispatch of a row yields without changing the store:
\* the text to send, or NULL when the detection raises and the outer handler
\* of execute_scheduled_task ends the execution.
DispatchText(row) ==
    IF ~IsNull(row.task_type) THEN CapabilityText(row)
    ELSE IF DetectionRaises(row.message) THEN NULL
    ELSE IF DetectionAnswers(row.message) THEN Some(AgentReply("detected"))
    ELSE Some(row.message)

\* A fire that trusts the arguments captured when the trigger was armed when
\* the row is gone
ReadRowOrArgs(table, j) ==
    IF j.args.task_id \in DOMAIN table THEN Some(table[j.args.task_id])
    ELSE Some(NewRow(j.args.contact, j.args.message, j.run_date, FALSE,
                     NULL, NULL, NULL, NULL, NULL))

\* SELECT ... FROM scheduled_tasks WHERE id = ?, fetchone(): the row of the
\* job's task id, NULL when there is none.  The contact and message of the
\* job's args are only logged.
ReadRow(table, j) ==
    IF j.args.task_id \in DOMAIN table THEN Some(table[j.args.task_id]) ELSE NULL

\* The scheduler takes a due job out of the store and runs
\* execute_scheduled_task: the row is read by id (the function returns at once
\* when there is none) and dispatched (the capability executor, or the
\* detection run on a plain message).
FireStart(j) ==
    /\ j \in jobs
    /\ j.run_date <= now
    /\ IF IsNull(ReadRow(scheduled_tasks, j))
       THEN /\ jobs' = date_trigger_done(jobs, j)
            /\ missed' = missed \cup {j.args.task_id}
            /\ UNCHANGED <<scheduled_tasks, next_id, running, fired>>
       ELSE LET id == j.args.task_id
                row == Val(ReadRow(scheduled_tasks, j))
            IN  /\ fired' = [fired EXCEPT ![id] = @ + 1]
                /\ UNCHANGED missed
                /\ \/ \* the text of the executor or of the detection, or the raise
                      /\ jobs' = date_trigger_done(jobs, j)
                      /\ running' = IF IsNull(DispatchText(row)) THEN running
                                    ELSE running \cup {Execution(j, row, Val(DispatchText(row)))}
                      /\ UNCHANGED <<scheduled_tasks, next_id>>
                   \/ \* the reminder executor reaches the create_scheduled_task
                      \* callback: a one-shot task for the contact, after now
                      /\ ~IsNull(row.task_type)
                      /\ Val(row.task_type) = "reminder"
                      /\ ~Undecodable(row.task_params)
                      /\ ~NotAnObject(row.task_params)
                      /\ has_callback
                      /\ NewId <= MaxTasks
                      /\ \E d \in 1..MaxAhead :
                           LET new == create_scheduled_task_row(row.contact, <<"hello">>,
                                          now + d, FALSE, NULL, NULL, NULL, NULL)
                           IN  /\ scheduled_tasks' =
                                      create_scheduled_task_table(scheduled_tasks, NewId, new)
                               /\ jobs' = create_scheduled_task_jobs(date_trigger_done(jobs, j),
                                                                    NewId, new)
                      /\ next_id' = NewId + 1
                      /\ running' = running \cup {Execution(j, row, ReminderSet)}
    /\ UNCHANGED <<now, sent, has_callback, deleted, result, pool, reader_vars>>

\* osascript fails (a non-zero return code, or an exception) for a recipient
\* Messages cannot reach: every contact outside Contacts
SendFails(contact) == contact \notin Contacts

\* A send whose failure reaches the caller
send_imessage_raising(contact, text) ==
    IF SendFails(contact) THEN "raised" ELSE "returned"

\* send_imessage(contact, message): a failure is printed, the call returns
send_imessage(contact, text) == "returned"

SendEntry(e) ==
    [task |-> TaskOf(e), due |-> e.job.run_date, contact |-> e.row.contact,
     text |-> Val(e.response), after_delete |-> TaskOf(e) \in deleted,
     delivered |-> ~SendFails(e.row.contact)]

\* send_imessage(contact, response_message); an exception out of it would end
\* the execution in the outer handler
FireSend(e) ==
    /\ e \in running
    /\ e.pc = "send"
    /\ sent' = sent (+) SetToBag({SendEntry(e)})
    /\ running' = IF send_imessage(e.row.contact, Val(e.response)) = "raised"
                  THEN running \ {e}
                  ELSE (running \ {e}) \cup {[e EXCEPT !.pc = "persist"]}
    /\ UNCHANGED <<now, scheduled_tasks, next_id, jobs, has_callback, deleted, fired, missed, result, pool, reader_vars>>

\* The next run counted from the due time that fired
ScheduledRunTime(e) == e.job.run_date

\* current_time = datetime.now(), taken after the send
CurrentTime(e) == now

\* A recurring task gets its next run time from now and goes on to be armed
\* again; any other task is marked executed.
FirePersist(e) ==
    /\ e \in running
    /\ e.pc = "persist"
    /\ IF IsRecurringRow(e.row) /\ RecurrenceRaises(Val(e.row.recurring_type),
                                                    Val(e.row.recurring_value), CurrentTime(e))
       THEN \* the outer handler logs the OverflowError
            /\ running' = running \ {e}
            /\ UNCHANGED scheduled_tasks
       ELSE IF IsRecurringRow(e.row)
       THEN LET next_time == RecurrenceNext(Val(e.row.recurring_type),
                                            Val(e.row.recurring_value), CurrentTime(e))
            IN  IF IsNull(next_time)
                THEN /\ running' = running \ {e}
                     /\ UNCHANGED scheduled_tasks
                ELSE /\ scheduled_tasks' =
                            update_next_run_time(scheduled_tasks, TaskOf(e), Val(next_time))
                     /\ running' = (running \ {e}) \cup
                            {[e EXCEPT !.pc = "rearm", !.next_time = next_time]}
       ELSE /\ scheduled_tasks' = mark_task_executed(scheduled_tasks, TaskOf(e))
            /\ running' = running \ {e}
    /\ UNCHANGED <<now, next_id, jobs, sent, has_callback, deleted, fired, missed, result, pool, reader_vars>>

\* scheduler.add_job(..., run_date=next_time, id=task_<id>_<next_time>)
FireRearm(e) ==
    /\ e \in running
    /\ e.pc = "rearm"
    /\ jobs' = add_job(jobs, Job(JobId(TaskOf(e), TRUE, Val(e.next_time)), Val(e.next_time),
                                 TaskOf(e), e.row.contact, e.row.message))
    /\ running' = running \ {e}
    /\ UNCHANGED <<now, scheduled_tasks, next_id, sent, has_callback, deleted, fired, missed, result, pool, reader_vars>>

Fire ==
    \/ \E j \in jobs : FireStart(j)
    \/ \E e \in running : FireSend(e)
    \/ \E e \in running : FirePersist(e)
    \/ \E e \in running : FireRearm(e)

\* --------------------------------------------- MessageDB.get_scheduled_tasks
Matches(row, contact, include_executed, only_recurring) ==
    /\ IsNull(contact) \/ row.contact = Val(contact)
    /\ include_executed \/ ~row.executed
    /\ ~only_recurring \/ row.is_recurring

\* ORDER BY scheduled_time; rows of equal time in rowid order
Before(table, i, k) ==
    \/ table[i].scheduled_time < table[k].scheduled_time
    \/ table[i].scheduled_time = table[k].scheduled_time /\ i < k

RECURSIVE Ordered(_, _)
Ordered(table, ids) ==
    IF ids = {} THEN <<>>
    ELSE LET first == CHOOSE i \in ids : \A k \in ids \ {i} : Before(table, i, k)
         IN  <<first>> \o Ordered(table, ids \ {first})

\* the ids of the rows returned, in the order returned
get_scheduled_tasks(table, contact, include_executed, only_recurring) ==
    Ordered(table, {i \in DOMAIN table :
                       Matches(table[i], contact, include_executed, only_recurring)})

Range(seq) == {seq[i] : i \in 1..Len(seq)}

\* ----------------------------------------------------- GET /scheduled_tasks
\* display_time = next_run_time if is_recurring and next_run_time else
\* scheduled_time
display_time(row) ==
    IF row.is_recurring /\ ~IsNull(row.next_run_time)
    THEN Val(row.next_run_time) ELSE row.scheduled_time

\* get_tasks: one task_info per row of db.get_scheduled_tasks(contact,
\* include_executed, only_recurring), in the order of the rows
get_tasks(table, contact, include_executed, only_recurring) ==
    LET ids == get_scheduled_tasks(table, contact, include_executed, only_recurring)
    IN  [i \in 1..Len(ids) |->
            [id |-> ids[i], contact |-> table[ids[i]].contact,
             executed |-> table[ids[i]].executed,
             is_recurring |-> table[ids[i]].is_recurring,
             display_time |-> display_time(table[ids[i]])]]

\* request.args.get('contact'): absent, or a contact
ContactFilters == {NULL} \cup {Some(c) : c \in Contacts}

\* ------------------------------------------ DELETE /scheduled_tasks/<task_id>
\* for t in db.get_scheduled_tasks(): if t[0] == task_id
delete_task_found(table, task_id) ==
    task_id \in Range(get_scheduled_tasks(table, NULL, FALSE, FALSE))

delete_task(task_id) ==
    /\ IF delete_task_found(scheduled_tasks, task_id)
       THEN /\ jobs' = IF IsNull(scheduled_tasks[task_id].job_id) THEN jobs
                       ELSE remove_job(jobs, Val(scheduled_tasks[task_id].job_id))
            /\ scheduled_tasks' = DeleteRow(scheduled_tasks, task_id)
            /\ deleted' = deleted \cup {task_id}
       ELSE UNCHANGED <<scheduled_tasks, jobs, deleted>>
    /\ UNCHANGED <<now, next_id, running, sent, has_callback, fired, missed, result, pool, reader_vars>>

DeleteTask == \E task_id \in 1..MaxTasks : delete_task(task_id)

\* ------------------------------------------------------- load_scheduled_tasks
\* A start-up pass that ignores next_run_time
LoadScheduledTime(row) == row.scheduled_time

\* the run time a persisted row is armed for
LoadRunTime(row) ==
    IF row.is_recurring /\ ~IsNull(row.next_run_time)
    THEN Val(row.next_run_time) ELSE row.scheduled_time

\* A start-up pass that arms every row it lists
LoadArmsAll(row, t) == TRUE

\* only rows whose run time is after now are armed
LoadArms(row, t) == LoadRunTime(row) > t

RECURSIVE load_jobs(_, _, _, _)
load_jobs(table, ids, t, store) ==
    IF ids = <<>> THEN store
    ELSE LET id == Head(ids)
             row == table[id]
         IN  load_jobs(table, Tail(ids), t,
                 IF LoadArms(row, t)
                 THEN add_job(store, Job(JobId(id, row.is_recurring, LoadRunTime(row)),
                                         LoadRunTime(row), id, row.contact, row.message))
                 ELSE store)

load_table(table, t) ==
    [id \in DOMAIN table |->
        IF ~table[id].executed /\ LoadArms(table[id], t)
        THEN [table[id] EXCEPT
                 !.job_id = Some(JobId(id, table[id].is_recurring, LoadRunTime(table[id])))]
        ELSE table[id]]

\* The process stops (the job store, the pool and the attributes patched onto
\* config are in memory only) and starts again: scheduler.start() and
\* load_scheduled_tasks() run at import.
Restart ==
    /\ jobs' = load_jobs(scheduled_tasks,
                         get_scheduled_tasks(scheduled_tasks, NULL, FALSE, FALSE), now, {})
    /\ scheduled_tasks' = load_table(scheduled_tasks, now)
    /\ running' = {}
    /\ has_callback' = FALSE
    /\ UNCHANGED <<now, next_id, sent, deleted, fired, missed, result, pool, reader_vars>>

\* ------------------------------------------------------------ process_message
\* A reminder request.  t is the time the two parsing stages resolve (NULL
\* when neither does) and task_type the capability found in the extracted
\* content (the rules find weather and news, detect_task_with_llm any name).
\* The task is created when t is after now.  Otherwise the message goes to the
\* module's detect_and_execute_agent_task, which patches create_scheduled_task
\* onto config; when the detection finds a reminder, ReminderAgent.set_reminder
\* resolves its own time t2 and creates the task when t2 is after now.
process_message(contact, content, t, task_type, t2) ==
    /\ IF ~IsNull(t) /\ Val(t) > now
       THEN /\ NewId <= MaxTasks
            /\ LET row == create_scheduled_task_row(contact, content, Val(t), FALSE,
                               NULL, NULL, task_type,
                               IF IsNull(task_type) THEN NULL ELSE Some("json"))
               IN  /\ scheduled_tasks' =
                          create_scheduled_task_table(scheduled_tasks, NewId, row)
                   /\ jobs' = create_scheduled_task_jobs(jobs, NewId, row)
            /\ next_id' = NewId + 1
            /\ UNCHANGED has_callback
       ELSE /\ has_callback' = TRUE
            /\ IF ~IsNull(t2) /\ Val(t2) > now
               THEN /\ NewId <= MaxTasks
                    /\ LET row == create_scheduled_task_row(contact, content, Val(t2),
                                       FALSE, NULL, NULL, NULL, NULL)
                       IN  /\ scheduled_tasks' =
                                  create_scheduled_task_table(scheduled_tasks, NewId, row)
                           /\ jobs' = create_scheduled_task_jobs(jobs, NewId, row)
                    /\ next_id' = NewId + 1
               ELSE UNCHANGED <<scheduled_tasks, jobs, next_id>>
    /\ UNCHANGED <<now, running, sent, deleted, fired, missed, result, pool, reader_vars>>

\* the times a parse can resolve: none, now, or later
ResolvedTimes == {NULL} \cup {Some(now + d) : d \in 0..MaxAhead}

ProcessMessage ==
    \E contact \in Contacts, t \in ResolvedTimes :
        \/ \E task_type \in {NULL, Some("other")} :
               process_message(contact, <<"hello">>, t, task_type, NULL)
        \/ \E t2 \in ResolvedTimes :
               process_message(contact, <<"hello">>, t, NULL, t2)

Next == Tick \/ CreateTask \/ Fire \/ DeleteTask \/ Restart \/ ProcessMessage

Spec == Init /\ [][Next]_vars

\* One run of the process, from start to stop
NextRun == Tick \/ CreateTask \/ Fire \/ DeleteTask \/ ProcessMessage

RunSpec == Init /\ [][NextRun]_vars

\* Tasks on which something fails when they fire: a recipient the send cannot
\* reach, stored params that do not decode, params the executor fails on.
UnreachableContact == "nobody"

FaultyShapes ==
    { <<Some(<<"hello">>), NULL, NULL>> }
    \cup { <<Some(<<"hello">>), Some("weather"), Some(p)>> : p \in {"json", "notjson", "nonobject"} }

FaultyRequests ==
    { Request(Some(c), k[1], Some(now + d), r[1], r[2], r[3], k[2], k[3]) :
        c \in Contacts \cup {UnreachableContact}, k \in FaultyShapes, d \in 1..MaxAhead,
        r \in {<<FALSE, NULL, NULL>>, <<TRUE, Some("minutely"), Some(1)>>} }

CreateFaultyTask == \E req \in FaultyRequests : create_task(req)

NextFault == Tick \/ CreateFaultyTask \/ Fire

FaultSpec == Init /\ [][NextFault]_vars

\* create_scheduled_task called as a function (it is what the config object
\* hands to the agents): it checks none of its arguments, so the rule of a
\* recurring task may have any type.
DirectRules == {<<FALSE, NULL, NULL>>} \cup {<<TRUE, Some(t), Some(1)>> : t \in RuleTypes}

create_scheduled_task(contact, message, scheduled_time, rule) ==
    LET new == create_scheduled_task_row(contact, message, scheduled_time,
                                         rule[1], rule[2], rule[3], NULL, NULL)
    IN  /\ NewId <= MaxTasks
        /\ scheduled_tasks' = create_scheduled_task_table(scheduled_tasks, NewId, new)
        /\ jobs' = create_scheduled_task_jobs(jobs, NewId, new)
        /\ next_id' = NewId + 1
        /\ UNCHANGED <<now, running, sent, has_callback, deleted, fired, missed, result, pool, reader_vars>>

CreateScheduledTask ==
    \E c \in Contacts, d \in 1..MaxAhead, rule \in DirectRules :
        create_scheduled_task(c, <<"hello">>, now + d, rule)

NextDirect == Tick \/ CreateScheduledTask \/ Fire

DirectSpec == Init /\ [][NextDirect]_vars

\* ------------------------------------------- functions tried on their own
\* Each behaviour tries one call: result goes from "none" to the call and its
\* outcome.
\* The recurrence computation of execute_scheduled_task on a rule and a
\* current time: the exception, the None of an unknown type, or the time
RecurrenceValues == {1, 2, HugeValue}

next_time_outcome(recurring_type, recurring_value, current_time) ==
    IF RecurrenceRaises(recurring_type, recurring_value, current_time)
    THEN [raised |-> TRUE, next_time |-> NULL]
    ELSE [raised |-> FALSE,
          next_time |-> RecurrenceNext(recurring_type, recurring_value, current_time)]

ComputeNextTime ==
    /\ result.op = "none"
    /\ \E recurring_type \in RuleTypes, recurring_value \in RecurrenceValues, current_time \in 0..MaxTime :
          result' = [op |-> "next_time", recurring_type |-> recurring_type,
                     recurring_value |-> recurring_value, current_time |-> current_time,
                     out |-> next_time_outcome(recurring_type, recurring_value, current_time)]
    /\ UNCHANGED service_vars

\* What the language model answered to the time-parsing prompt.
\*   shape: "object" when the text (or its json block) decodes to a JSON
\*     object, "notobject" when it decodes to something else, "malformed" when
\*     json.loads rejects it, "error" when the request itself failed;
\*   confidence: the confidence the text states, in tenths, NULL when none;
\*   parsed_time: the time the text names, NULL when none (null or absent);
\*   form: how that time is written: "iso" as YYYY-MM-DDTHH:MM:SS, "other" in
\*     another form dateutil reads, "bad" in a form it rejects.
LlmTimes == 1..2
Confidences == {NULL, Some(3), Some(5), Some(9)}
ConfidenceThreshold == 5

LlmResponse(shape, confidence, parsed_time, form) ==
    [shape |-> shape, confidence |-> confidence, parsed_time |-> parsed_time, form |-> form]

NoResponse == LlmResponse("error", NULL, NULL, "iso")

LlmResponses ==
    { LlmResponse(shape, confidence, NULL, "iso") :
        shape \in {"object", "notobject", "malformed"}, confidence \in Confidences }
    \cup { LlmResponse(shape, confidence, Some(t), form) :
        shape \in {"object", "notobject", "malformed"}, confidence \in Confidences,
        t \in LlmTimes, form \in {"iso", "other", "bad"} }
    \cup { NoResponse }

\* parse_time_with_llm on the answer: the time, or NULL for None
parse_time_with_llm(response) ==
    IF response.shape = "error" THEN NULL
    ELSE IF response.shape = "malformed"
         THEN \* the search for YYYY-MM-DDTHH:MM:SS in the raw text
              IF ~IsNull(response.parsed_time) /\ response.form = "iso"
              THEN response.parsed_time ELSE NULL
    ELSE IF response.shape = "notobject" THEN NULL
    ELSE IF IsNull(response.confidence) \/ Val(response.confidence) < ConfidenceThreshold
         THEN NULL
    ELSE IF IsNull(response.parsed_time) \/ response.form = "bad" THEN NULL
    ELSE response.parsed_time

ParseTimeWithLlm ==
    /\ result.op = "none"
    /\ \E response \in LlmResponses :
          result' = [op |-> "parse_time_with_llm", response |-> response,
                     out |-> parse_time_with_llm(response)]
    /\ UNCHANGED service_vars

\* The deterministic parsers.  Their times are hours of the current month:
\* hour h of day d is 24 * d + h.  A clock is the day and hour of
\* datetime.now(); an expression is what a text says: a bare time ("at 3"),
\* a time today or tomorrow, a delay in hours ("in 3 hours"), a date of this
\* month with a time, or nothing about time; n is the number written, day
\* the day of the date.  The dated texts are tried on the parser of the
\* service only.
Clocks == {[day |-> d, hour |-> h] : d \in {2, 10}, h \in {2, 16}}
Numbers == {0, 3, 20, 45}
\* period is the qualifier written before the hour: none, afternoon, evening
Periods == {"none", "afternoon", "evening"}
NoExpression == [kind |-> "none", n |-> 0, day |-> 0, period |-> "none"]

TimeExpressions ==
    { [kind |-> k, n |-> n, day |-> 0, period |-> q] :
        k \in {"bare", "today", "tomorrow"}, n \in Numbers, q \in Periods }
    \cup { [kind |-> "later", n |-> n, day |-> 0, period |-> "none"] : n \in Numbers }
    \cup { NoExpression }

DatedExpressions ==
    { [kind |-> "date", n |-> n, day |-> d, period |-> q] :
        n \in Numbers, d \in {2, 10}, q \in Periods }

\* the hour after the qualifier: an afternoon or evening hour below 12 is
\* moved on by 12
AdjustedHour(period, hour) ==
    IF period \in {"afternoon", "evening"} /\ hour < 12 THEN hour + 12 ELSE hour

At(day, hour) == 24 * day + hour
ClockTime(clock) == At(clock.day, clock.hour)

Returned(time) == [raised |-> FALSE, time |-> time]
Raised == [raised |-> TRUE, time |-> NULL]

\* parse_time_from_message of message_ai_service: the delay, then the day
\* word with a time, then the date with a time; replace(hour=...) raises for
\* an hour past 23, the datetime constructor's ValueError alone is caught.
\* A date of this month before today is read as next year's.
parse_time_from_message(expr, clock) ==
    IF expr.kind = "later" THEN Returned(Some(ClockTime(clock) + expr.n))
    ELSE IF expr.kind \in {"today", "tomorrow"}
         THEN IF AdjustedHour(expr.period, expr.n) > 23 THEN Raised
              ELSE Returned(Some(At(clock.day + (IF expr.kind = "today" THEN 0 ELSE 1),
                                    AdjustedHour(expr.period, expr.n))))
    ELSE IF expr.kind = "date"
         THEN IF AdjustedHour(expr.period, expr.n) > 23 THEN Returned(NULL)
              ELSE Returned(Some(At(expr.day, AdjustedHour(expr.period, expr.n))
                                   + (IF expr.day < clock.day THEN 365 * 24 ELSE 0)))
    ELSE Returned(NULL)

\* parser.parse(time_str, fuzzy=True) of dateutil on these texts: a number
\* from 1 to 31 is taken for a day of the current month, at 00:00, whatever
\* stands around it; any other text is refused.
dateutil_parse(expr) ==
    IF expr.kind \in {"bare", "today", "tomorrow", "later"} /\ expr.n \in 1..31
    THEN Some(At(expr.n, 0)) ELSE NULL

\* The pattern table of agents.time_parser, first match: the time it builds,
\* NULL when no pattern matches, Raised when replace(hour=...) raises.  The
\* rules in their order: a day word right before the hour; the delays; today
\* or tomorrow with the afternoon qualifier; the bare hour, which is found in
\* every text left, so that the rules after it (afternoon, evening) and a
\* day word before an evening hour never count.
pattern_time(expr, clock) ==
    IF expr.kind = "none" THEN Returned(NULL)
    ELSE IF expr.kind = "later" THEN Returned(Some(ClockTime(clock) + expr.n))
    ELSE IF expr.kind \in {"today", "tomorrow"} /\ expr.period = "none"
         THEN IF expr.n > 23 THEN Raised
              ELSE Returned(Some(At(clock.day + (IF expr.kind = "tomorrow" THEN 1 ELSE 0), expr.n)))
    ELSE IF expr.kind \in {"today", "tomorrow"} /\ expr.period = "afternoon"
         THEN IF AdjustedHour(expr.period, expr.n) > 23 THEN Raised
              ELSE Returned(Some(At(clock.day + (IF expr.kind = "tomorrow" THEN 1 ELSE 0),
                                    AdjustedHour(expr.period, expr.n))))
    ELSE IF expr.n > 23 THEN Raised
    ELSE Returned(Some(At(clock.day, expr.n)))

\* if parsed_time < now and no day word in the text and
\* (now - parsed_time).days < 1: parsed_time += timedelta(days=1)
roll_forward(parsed_time, expr, clock) ==
    IF /\ parsed_time < ClockTime(clock)
       /\ expr.kind \notin {"today", "tomorrow"}
       /\ ClockTime(clock) - parsed_time < 24
    THEN parsed_time + 24 ELSE parsed_time

\* parse_time_from_message of agents.time_parser: what dateutil returns is
\* returned as it is; else the patterns and the step to the next day; every
\* exception gives None.
agents_parse_time_from_message(expr, clock) ==
    IF ~IsNull(dateutil_parse(expr)) THEN Returned(dateutil_parse(expr))
    ELSE IF pattern_time(expr, clock).raised \/ IsNull(pattern_time(expr, clock).time)
         THEN Returned(NULL)
    ELSE Returned(Some(roll_forward(Val(pattern_time(expr, clock).time), expr, clock)))

ParseTimeFromMessage ==
    /\ result.op = "none"
    /\ \E expr \in TimeExpressions \cup DatedExpressions, clock \in Clocks :
          \/ result' = [op |-> "parse_time_from_message", parser |-> "service",
                        expr |-> expr, clock |-> clock,
                        out |-> parse_time_from_message(expr, clock)]
          \/ /\ expr \in TimeExpressions
             /\ result' = [op |-> "parse_time_from_message", parser |-> "agents",
                           expr |-> expr, clock |-> clock,
                           out |-> agents_parse_time_from_message(expr, clock)]
    /\ UNCHANGED service_vars

\* The two places that resolve a time: the deterministic parser first, the
\* language model when it gave nothing.  det is the outcome of the parser,
\* response the answer the model gives if asked.
\* A resolver that asks the model first and keeps its time when it has one
resolve_llm_first(det, response, on_raise) ==
    [llm_called |-> TRUE, raised |-> FALSE,
     out |-> IF IsNull(parse_time_with_llm(response)) THEN det.time
             ELSE parse_time_with_llm(response)]

\* on_raise is what happens when the parser raises: "propagate" in
\* process_message, "llm" in set_reminder.
resolve(det, response, on_raise) ==
    IF det.raised /\ on_raise = "propagate"
    THEN [llm_called |-> FALSE, raised |-> TRUE, out |-> NULL]
    ELSE IF det.raised \/ IsNull(det.time)
    THEN [llm_called |-> TRUE, raised |-> FALSE, out |-> parse_time_with_llm(response)]
    ELSE [llm_called |-> FALSE, raised |-> FALSE, out |-> det.time]

\* the answers tried in a resolution
ResolveResponses ==
    { LlmResponse(shape, confidence, parsed_time, "iso") :
        shape \in {"object", "malformed"}, confidence \in {Some(3), Some(9)},
        parsed_time \in {NULL, Some(1)} }

\* process_message: parse_time_from_message, then parse_time_with_llm
ResolveInProcessMessage ==
    /\ result.op = "none"
    /\ \E expr \in TimeExpressions \cup DatedExpressions, clock \in Clocks, response \in ResolveResponses :
          result' = [op |-> "resolve", place |-> "process_message",
                     expr |-> expr, clock |-> clock, response |-> response,
                     det |-> parse_time_from_message(expr, clock),
                     res |-> resolve(parse_time_from_message(expr, clock), response, "propagate")]
    /\ UNCHANGED service_vars

\* ReminderAgent.set_reminder: the parser of agents.time_parser, then
\* parse_time_with_llm, also when the parser raised
ResolveInSetReminder ==
    /\ result.op = "none"
    /\ \E expr \in TimeExpressions, clock \in Clocks, response \in ResolveResponses :
          result' = [op |-> "resolve", place |-> "set_reminder",
                     expr |-> expr, clock |-> clock, response |-> response,
                     det |-> agents_parse_time_from_message(expr, clock),
                     res |-> resolve(agents_parse_time_from_message(expr, clock), response, "llm")]
    /\ UNCHANGED service_vars

\* What the requester of a reminder is told, and whether a task was made.
\* agent_response is what detect_and_execute_agent_task returns when
\* process_message has no time after now: None, the refusal or the
\* confirmation of set_reminder (the detection found a reminder and ran its
\* own resolution), or the answer of another agent.
AgentResponses == {NULL, Some("time_not_understood"), Some("reminder_set"), Some("agent_answer")}

\* process_message: nothing is sent when the parser raised (the handler
\* logs); a time after now is confirmed; else the agent's answer, or the
\* reply of the chat model
process_message_reply(res, clock, agent_response) ==
    IF res.raised THEN [reply |-> NULL, created |-> FALSE]
    ELSE IF ~IsNull(res.out) /\ Val(res.out) > ClockTime(clock)
    THEN [reply |-> Some("confirmation"), created |-> TRUE]
    ELSE IF ~IsNull(agent_response)
    THEN [reply |-> agent_response, created |-> agent_response = Some("reminder_set")]
    ELSE [reply |-> Some("ai_response"), created |-> FALSE]

\* set_reminder: no time, or a time not after now, is refused; else the task
\* is made through the callback of the config, if it has one
set_reminder_reply(res, clock, callback) ==
    IF IsNull(res.out) \/ Val(res.out) <= ClockTime(clock)
    THEN [reply |-> Some("time_not_understood"), created |-> FALSE]
    ELSE IF callback THEN [reply |-> Some("reminder_set"), created |-> TRUE]
    ELSE [reply |-> Some("system_error"), created |-> FALSE]

ReplyInProcessMessage ==
    /\ result.op = "none"
    /\ \E expr \in TimeExpressions \cup DatedExpressions, clock \in Clocks, response \in ResolveResponses, agent_response \in AgentResponses :
          LET res == resolve(parse_time_from_message(expr, clock), response, "propagate")
          IN  result' = [op |-> "reply", place |-> "process_message",
                         expr |-> expr, clock |-> clock, response |-> response,
                         agent_response |-> agent_response, res |-> res,
                         told |-> process_message_reply(res, clock, agent_response)]
    /\ UNCHANGED service_vars

ReplyInSetReminder ==
    /\ result.op = "none"
    /\ \E expr \in TimeExpressions, clock \in Clocks, response \in ResolveResponses, callback \in BOOLEAN :
          LET res == resolve(agents_parse_time_from_message(expr, clock), response, "llm")
          IN  result' = [op |-> "reply", place |-> "set_reminder",
                         expr |-> expr, clock |-> clock, response |-> response,
                         agent_response |-> NULL, res |-> res,
                         told |-> set_reminder_reply(res, clock, callback)]
    /\ UNCHANGED service_vars

NextPure == ComputeNextTime \/ ParseTimeWithLlm \/ ParseTimeFromMessage \/ ResolveInProcessMessage \/ ResolveInSetReminder \/ ReplyInProcessMessage \/ ReplyInSetReminder

PureSpec == Init /\ [][NextPure]_vars

\* ------------------------------------------------- the scheduler's executor
\* executors = {'default': ThreadPoolExecutor(20)}: jobs whose run date has
\* come are handed to a pool of 20 worker threads; a job handed over while all
\* workers are busy waits in the pool's work queue.  job_defaults sets
\* coalesce and max_instances and no misfire_grace_time, so the scheduler's
\* own value of one second applies: a worker that takes up a job more than
\* that after its run date skips it.  The clock of the pool counts seconds.
PoolJobs == 21

PoolMaxClock == 2

PoolSize == 20

MisfireGraceTime == 1

\* the worker takes the job up however late it is (misfire_grace_time=None)
MissedNever(run_time, clock) == FALSE

\* the test a worker makes before it calls the job's function
Missed(run_time, clock) == clock - run_time > MisfireGraceTime

\* a second passes; an idle worker takes a waiting job up at once, so none
\* waits while a worker is free
PoolTick ==
    /\ pool.clock < PoolMaxClock
    /\ pool.work_queue = <<>> \/ pool.executing = PoolSize
    /\ pool' = [pool EXCEPT !.clock = @ + 1]
    /\ UNCHANGED <<now, scheduled_tasks, next_id, jobs, running, sent, has_callback, deleted, fired, missed, result, reader_vars>>

\* the scheduler thread finds a date job due: it hands it to the executor
\* (and removes it from the job store, as a date job has no later run)
SubmitJob ==
    /\ pool.submitted < PoolJobs
    /\ pool' = [pool EXCEPT !.submitted = @ + 1, !.work_queue = Append(@, pool.clock)]
    /\ UNCHANGED <<now, scheduled_tasks, next_id, jobs, running, sent, has_callback, deleted, fired, missed, result, reader_vars>>

\* a free worker takes the oldest waiting job: it runs it, or skips it as
\* missed
RunJob ==
    /\ pool.work_queue # <<>>
    /\ pool.executing < PoolSize
    /\ pool' = IF Missed(Head(pool.work_queue), pool.clock)
               THEN [pool EXCEPT !.work_queue = Tail(@), !.skipped = @ + 1]
               ELSE [pool EXCEPT !.work_queue = Tail(@), !.executing = @ + 1]
    /\ UNCHANGED <<now, scheduled_tasks, next_id, jobs, running, sent, has_callback, deleted, fired, missed, result, reader_vars>>

\* execute_scheduled_task returns: the worker is free again
FinishJob ==
    /\ pool.executing > 0
    /\ pool' = [pool EXCEPT !.executing = @ - 1]
    /\ UNCHANGED <<now, scheduled_tasks, next_id, jobs, running, sent, has_callback, deleted, fired, missed, result, reader_vars>>

NextPool == PoolTick \/ SubmitJob \/ RunJob \/ FinishJob

PoolSpec == Init /\ [][NextPool]_vars

\* ---------------------------------------------- imessage_reader.py: the feed
\* Messages are written to chat.db by the Messages application, with rising
\* dates; the file handler turns a change of the file into an event unless
\* the last one it let through is less than a cooldown old; the DatabaseThread
\* reads the table when an event arrives or when a second has passed without.
\* At start time.time() is far more than a cooldown after last_event_time = 0.
MaxMessages == 3

FeedMaxTime == 3

\* rows of the table newer than the date, ORDER BY message.date ASC
RECURSIVE rows_after(_, _)
rows_after(db, date) ==
    LET newer == {d \in db : d > date}
    IN  IF newer = {} THEN <<>>
        ELSE LET first == CHOOSE d \in newer : \A k \in newer : d <= k
             IN  <<first>> \o rows_after(db, first)

\* SELECT MAX(date) ...: result[0] if result[0] else None
get_latest_message_date(db) ==
    IF db = {} THEN NULL ELSE Some(CHOOSE d \in db : \A k \in db : k <= d)

FeedTick ==
    /\ wall_time < FeedMaxTime
    /\ wall_time' = wall_time + 1
    /\ UNCHANGED <<chat_db, event_queue, last_event_time, db_thread, delivered>>
    /\ UNCHANGED <<now, scheduled_tasks, next_id, jobs, running, sent, has_callback, deleted, fired, missed, result, pool>>

\* the Messages application writes a message; on_modified runs for the change
WriteMessage ==
    /\ Cardinality(chat_db) < MaxMessages
    /\ chat_db' = chat_db \cup {Cardinality(chat_db) + 1}
    /\ IF wall_time - last_event_time >= Cooldown
       THEN /\ last_event_time' = wall_time
            /\ event_queue' = event_queue + 1
       ELSE UNCHANGED <<last_event_time, event_queue>>
    /\ UNCHANGED <<wall_time, db_thread, delivered>>
    /\ UNCHANGED <<now, scheduled_tasks, next_id, jobs, running, sent, has_callback, deleted, fired, missed, result, pool>>

\* DatabaseThread.run up to its loop: the watermark is the latest date
RunStart ==
    /\ db_thread.pc = "start"
    /\ db_thread' = [db_thread EXCEPT !.pc = "wait",
                                      !.last_message_date = get_latest_message_date(chat_db),
                                      !.initial_date = get_latest_message_date(chat_db)]
    /\ UNCHANGED <<chat_db, wall_time, event_queue, last_event_time, delivered>>
    /\ UNCHANGED <<now, scheduled_tasks, next_id, jobs, running, sent, has_callback, deleted, fired, missed, result, pool>>

\* event_queue.get(timeout=1) returns an event
GetEvent ==
    /\ db_thread.pc = "wait"
    /\ event_queue > 0
    /\ event_queue' = event_queue - 1
    /\ db_thread' = [db_thread EXCEPT !.pc = "check"]
    /\ UNCHANGED <<chat_db, wall_time, last_event_time, delivered>>
    /\ UNCHANGED <<now, scheduled_tasks, next_id, jobs, running, sent, has_callback, deleted, fired, missed, result, pool>>

\* event_queue.get(timeout=1) raises queue.Empty
GetTimeout ==
    /\ db_thread.pc = "wait"
    /\ event_queue = 0
    /\ db_thread' = [db_thread EXCEPT !.pc = "check"]
    /\ UNCHANGED <<chat_db, wall_time, event_queue, last_event_time, delivered>>
    /\ UNCHANGED <<now, scheduled_tasks, next_id, jobs, running, sent, has_callback, deleted, fired, missed, result, pool>>

\* check_new_messages: the read of the latest date and the test on it
CheckLatest ==
    /\ db_thread.pc = "check"
    /\ LET current_latest_date == get_latest_message_date(chat_db)
       IN  db_thread' =
               IF /\ ~IsNull(current_latest_date)
                  /\ \/ IsNull(db_thread.last_message_date)
                     \/ Val(current_latest_date) > Val(db_thread.last_message_date)
               THEN [db_thread EXCEPT !.pc = "fetch", !.current_latest_date = current_latest_date]
               ELSE [db_thread EXCEPT !.pc = "wait"]
    /\ UNCHANGED <<chat_db, wall_time, event_queue, last_event_time, delivered>>
    /\ UNCHANGED <<now, scheduled_tasks, next_id, jobs, running, sent, has_callback, deleted, fired, missed, result, pool>>

\* check_new_messages: the query for the rows after the watermark, the call
\* of the callback, and the new watermark
FetchAndDeliver ==
    /\ db_thread.pc = "fetch"
    /\ LET new_messages ==
               rows_after(chat_db, IF IsNull(db_thread.last_message_date) THEN 0
                                   ELSE Val(db_thread.last_message_date))
       IN  delivered' = IF new_messages # <<>> THEN Append(delivered, new_messages)
                        ELSE delivered
    /\ db_thread' = [db_thread EXCEPT !.pc = "wait",
                                      !.last_message_date = db_thread.current_latest_date,
                                      !.current_latest_date = NULL]
    /\ UNCHANGED <<chat_db, wall_time, event_queue, last_event_time>>
    /\ UNCHANGED <<now, scheduled_tasks, next_id, jobs, running, sent, has_callback, deleted, fired, missed, result, pool>>

NextFeed == FeedTick \/ WriteMessage \/ RunStart \/ GetEvent \/ GetTimeout \/ CheckLatest \/ FetchAndDeliver

FeedSpec == Init /\ [][NextFeed]_vars

\* ------------------------------------------------------------------- claims
Executing(id) == {e \in running : TaskOf(e) = id}

\* the number of send_imessage calls among sent whose entry is in the set
SendCount(entries) ==
    BagCardinality([x \in BagToSet(sent) \cap entries |-> CopiesIn(x, sent)])

\* the sends made for a task after its deletion returned success
SendsAfterDelete(id) ==
    SendCount({x \in BagToSet(sent) : x.task = id /\ x.after_delete})

\* the sends made for one due time of a task
SendsAt(id, due) ==
    SendCount({x \in BagToSet(sent) : x.task = id /\ x.due = due})

\* the due time of a stored task: next_run_time if recurring, else
\* scheduled_time
DueTime(row) ==
    IF row.is_recurring THEN Val(row.next_run_time) ELSE row.scheduled_time

\* listTasks(includeExecuted = false)
ListedPending(table) == Range(get_scheduled_tasks(table, NULL, FALSE, FALSE))

\* the length of a recurrence rule in minutes (a month is thirty days)
IntervalMinutes(type, value) ==
    CASE type = "minutely" -> value
      [] type = "hourly" -> 60 * value
      [] type = "daily" -> 24 * 60 * value
      [] type = "weekly" -> 7 * 24 * 60 * value
      [] type = "monthly" -> 30 * 24 * 60 * value

\* C1: a one-shot task created for a time after now fires exactly once, and
\* once that fire is over its row has executed = TRUE and the scheduler holds
\* no trigger for it.  Stated for one run of the process: fired counts the
\* fires, and a fire is over when no execution of the task is in the pool.
C1_OneShotFiresOnceAndIsExecuted ==
    \A id \in Ids :
        ~scheduled_tasks[id].is_recurring =>
            /\ fired[id] <= 1
            /\ (fired[id] = 1 /\ Executing(id) = {})
                   => (scheduled_tasks[id].executed /\ JobsOf(id) = {})

\* C2: every delete_task step that finds the task (returns success) leaves no
\* row with that id in the table and no job for that id in the job store.
C2_DeleteRemovesRecordAndTriggers ==
    [][\A id \in 1..MaxTasks :
          (delete_task_found(scheduled_tasks, id) /\ delete_task(id))
              => /\ id \notin DOMAIN scheduled_tasks'
                 /\ \A k \in jobs' : k.args.task_id # id]_vars

\* C3: once delete_task has returned success for an id, the id is in no
\* listing (executed rows included), and the sends made for it after the
\* deletion together with the executions still about to send for it are at
\* most one: only an execution that had read the row before the deletion sends.
C3_DeletedTaskNotListedNorSentAgain ==
    \A id \in deleted :
        /\ id \notin Range(get_scheduled_tasks(scheduled_tasks, NULL, TRUE, FALSE))
        /\ SendsAfterDelete(id)
             + Cardinality({e \in Executing(id) : e.pc = "send"}) <= 1

\* a task was deleted while its fire was in flight, and that fire then sent
C3_Witness == \E id \in deleted : SendsAfterDelete(id) = 1

\* C4: a fire that finds the row of its task id dispatches that row as stored
\* (contact, message, recurrence rule, task type and params), and the send
\* goes to the row's contact; a fire that finds no row sends nothing, changes
\* no row, arms no trigger, and starts no execution.
C4_FireUsesStoredRecord ==
    [][/\ \A j \in jobs :
             FireStart(j) =>
                 IF j.args.task_id \in DOMAIN scheduled_tasks
                 THEN \A e \in running' \ running :
                          /\ e.job = j
                          /\ e.row = scheduled_tasks[j.args.task_id]
                 ELSE /\ UNCHANGED <<scheduled_tasks, sent, running, next_id, fired>>
                      /\ jobs' = jobs \ {j}
       /\ \A e \in running :
             FireSend(e) =>
                 \E x \in BagToSet(sent') :
                     /\ CopiesIn(x, sent') = CopiesIn(x, sent) + 1
                     /\ x.task = TaskOf(e)
                     /\ x.contact = e.row.contact]_vars

\* a trigger has fired for a task whose row was gone, and an execution that
\* read its row has sent
C4_Witness ==
    /\ missed # {}
    /\ \E e \in running :
          /\ e.pc = "persist"
          /\ TaskOf(e) \in Ids
          /\ SendsAt(TaskOf(e), e.job.run_date) = 1

C6_NoDoubleSendAcrossRestarts ==
    \A x \in BagToSet(sent) : SendsAt(x.task, x.due) <= 1

\* the process stopped after the send of a one-shot task and before the row
\* was marked executed
C6_Witness ==
    \E x \in BagToSet(sent) :
        /\ x.task \in Ids
        /\ ~scheduled_tasks[x.task].is_recurring
        /\ ~scheduled_tasks[x.task].executed
        /\ Executing(x.task) = {}

\* C7: when the fire of a recurring task with one of the five rule types
\* persists its outcome, the stored next_run_time becomes the time of that
\* step plus the rule's interval, whatever the due time of the trigger was.
C7_NextRunFromProcessingTime ==
    [][\A e \in running :
          (/\ FirePersist(e)
           /\ IsRecurringRow(e.row)
           /\ Val(e.row.recurring_type) \in RecurringTypes
           /\ TaskOf(e) \in Ids)
              => scheduled_tasks'[TaskOf(e)].next_run_time
                    = Some(now + IntervalMinutes(Val(e.row.recurring_type),
                                                 Val(e.row.recurring_value)))]_vars

\* a fire processed after its due time has stored a next run time later than
\* the due time plus the interval
C7_Witness ==
    \E e \in running :
        /\ e.pc = "rearm"
        /\ TaskOf(e) \in Ids
        /\ scheduled_tasks[TaskOf(e)].next_run_time = e.next_time
        /\ Val(e.next_time) > e.job.run_date
                                + IntervalMinutes(Val(e.row.recurring_type),
                                                  Val(e.row.recurring_value))

\* C8: a recurring task that is in the table (not deleted) always has a
\* trigger armed or a fire in progress, so that it goes on firing.
C8_RecurringTaskStaysArmed ==
    \A id \in Ids :
        scheduled_tasks[id].is_recurring
            => (JobsOf(id) # {} \/ Executing(id) # {})

\* a request create_task must refuse: a time not after now, a recurrence with
\* a missing or unknown type or a missing or non-positive value, or a task
\* type that is not registered
Defective(req) ==
    \/ ~IsNull(req.scheduled_time) /\ Val(req.scheduled_time) <= now
    \/ /\ req.is_recurring
       /\ \/ IsNull(req.recurring_type)
          \/ Val(req.recurring_type)
                \notin {"minutely", "hourly", "daily", "weekly", "monthly"}
          \/ IsNull(req.recurring_value)
          \/ Val(req.recurring_value) <= 0
    \/ /\ ~IsNull(req.task_type)
       /\ Val(req.task_type)
             \notin {"weather", "news", "reminder", "search", "calculate", "translate"}

\* C9: create_task refuses every defective request and returns with the
\* table and the job store as they were; every row in the table, whichever
\* flow created it (create_task, the reminder flow, the reminder agent), has a
\* scheduled time after the time it was created at, and every recurring row
\* has one of the five rule types and a positive value.
C9_DefectiveRequestsRejected ==
    /\ \A req \in CreateRequests :
          Defective(req) =>
              /\ create_task_check(req) # "ok"
              /\ create_task_table(req) = scheduled_tasks
              /\ create_task_jobs(req) = jobs
    /\ \A id \in Ids :
          /\ scheduled_tasks[id].scheduled_time > scheduled_tasks[id].created_at
          /\ scheduled_tasks[id].is_recurring =>
                /\ scheduled_tasks[id].recurring_type
                      \in {Some(t) : t \in {"minutely", "hourly", "daily", "weekly", "monthly"}}
                /\ ~IsNull(scheduled_tasks[id].recurring_value)
                /\ Val(scheduled_tasks[id].recurring_value) > 0

\* the reminder flow has taken its branch for a time that is not after now,
\* create_task has accepted a request, and among the requests at hand there
\* is one for each reason of refusal
C9_Witness ==
    /\ has_callback
    /\ now > 0
    /\ \E id \in Ids : scheduled_tasks[id].created_at = now
    /\ \A reason \in {"not_future", "recurring_missing", "recurring_type",
                      "recurring_value", "task_type"} :
          \E req \in CreateRequests :
              Defective(req) /\ create_task_check(req) = reason

\* C11: for every combination of the three filters, get_tasks returns exactly
\* the rows that match, each once, each with display time next_run_time if
\* recurring and scheduled_time otherwise, and the display times of the
\* sequence never decrease.
C11_ListingMatchesAndOrderedByDisplayTime ==
    \A contact \in ContactFilters, include_executed \in BOOLEAN, only_recurring \in BOOLEAN :
        LET views == get_tasks(scheduled_tasks, contact, include_executed, only_recurring)
        IN  /\ {views[i].id : i \in 1..Len(views)}
                  = {id \in Ids :
                        /\ IsNull(contact) \/ scheduled_tasks[id].contact = Val(contact)
                        /\ include_executed \/ ~scheduled_tasks[id].executed
                        /\ only_recurring => scheduled_tasks[id].is_recurring}
            /\ \A i, k \in 1..Len(views) : i # k => views[i].id # views[k].id
            /\ \A i \in 1..Len(views) :
                  views[i].display_time = DueTime(scheduled_tasks[views[i].id])
            /\ \A i, k \in 1..Len(views) :
                  i < k => views[i].display_time <= views[k].display_time

\* C10: delete_task finds (returns success for, and removes) every id that has
\* a row in the table, pending or executed.
C10_DeleteFindsEveryRecord ==
    \A id \in Ids : delete_task_found(scheduled_tasks, id)
\* the sends made for a task
SendsFor(id) == SendCount({x \in BagToSet(sent) : x.task = id})

\* C13: when a task without a capability fires, the text passed to
\* send_imessage is exactly the stored message of its row: every execution of
\* such a task that is past its send has sent row.message and nothing else.
C13_PlainTaskSendsStoredPayload ==
    \A e \in running :
        (e.pc # "send" /\ IsNull(e.row.task_type))
            => SendEntry(e).text = e.row.message

\* C14: every fire that found its row performs exactly one send to the row's
\* contact, and the send comes before the store update: for every task the
\* number of fires that found the row equals the sends made for it plus the
\* executions still about to send, every send went to the contact of the
\* row, and an execution that has not sent yet has not marked the row
\* executed.
C14_EveryFireSendsOnceInOrder ==
    \A id \in 1..MaxTasks :
        /\ fired[id] = SendsFor(id) + Cardinality({e \in Executing(id) : e.pc = "send"})
        /\ \A e \in Executing(id) :
              /\ e.pc # "send" => SendsAt(id, e.job.run_date) >= 1
              /\ (e.pc = "send" /\ id \in Ids /\ ~e.row.is_recurring /\ fired[id] = 1)
                     => ~scheduled_tasks[id].executed

\* a row whose capability execution fails
CapabilityFails(row) ==
    /\ ~IsNull(row.task_type)
    /\ Undecodable(row.task_params) \/ (Val(row.task_type) \in TaskTypes /\ NotAnObject(row.task_params))

\* every fire of the task has made its one send or is about to, no due time
\* was sent for twice, and once no fire is in progress a non-recurring task
\* that fired is executed with no trigger left, a recurring task that fired
\* has a later next_run_time and a trigger armed for it
FiredNormally(id) ==
    /\ fired[id] = SendsFor(id) + Cardinality({e \in Executing(id) : e.pc = "send"})
    /\ \A due \in 0..MaxTime : SendsAt(id, due) <= 1
    /\ ~scheduled_tasks[id].is_recurring => fired[id] <= 1
    /\ (fired[id] >= 1 /\ Executing(id) = {}) =>
          IF scheduled_tasks[id].is_recurring
          THEN /\ Val(scheduled_tasks[id].next_run_time) > scheduled_tasks[id].scheduled_time
               /\ \E j \in JobsOf(id) : j.run_date = Val(scheduled_tasks[id].next_run_time)
          ELSE scheduled_tasks[id].executed /\ JobsOf(id) = {}

\* C12: when a task with a capability fires and the execution of the
\* capability fails (its stored params do not decode, or the executor
\* raises), an error text is sent to the contact of the task in place of the
\* answer, once per fire, and the task goes on as after any fire: executed
\* if non-recurring, a new next_run_time and trigger if recurring.
C12_FailedCapabilityStillSendsAndTransitions ==
    \A id \in Ids :
        CapabilityFails(scheduled_tasks[id]) =>
            /\ FiredNormally(id)
            /\ \A x \in BagToSet(sent) :
                  x.task = id => /\ x.text \in {ErrorText("decode"), ErrorText("execute")}
                                 /\ x.contact = scheduled_tasks[id].contact

C12_Witness ==
    \E id, k \in Ids :
        /\ Undecodable(scheduled_tasks[id].task_params)
        /\ ~scheduled_tasks[id].is_recurring
        /\ scheduled_tasks[id].executed
        /\ SendsFor(id) = 1
        /\ NotAnObject(scheduled_tasks[k].task_params)
        /\ scheduled_tasks[k].is_recurring
        /\ fired[k] >= 1 /\ SendsFor(k) = fired[k]
        /\ JobsOf(k) # {}

\* C15: when the send of a fire fails, the task goes on as after any fire
\* (executed if non-recurring; a new next_run_time and trigger if recurring),
\* the send is attempted once per fire and no due time is fired twice.
C15_FailedSendStillTransitions ==
    \A id \in Ids :
        SendFails(scheduled_tasks[id].contact) =>
            /\ FiredNormally(id)
            /\ \A x \in BagToSet(sent) : x.task = id => ~x.delivered

C15_Witness ==
    \E id, k \in Ids :
        /\ SendFails(scheduled_tasks[id].contact)
        /\ ~scheduled_tasks[id].is_recurring
        /\ scheduled_tasks[id].executed
        /\ \E x \in BagToSet(sent) : x.task = id /\ ~x.delivered
        /\ SendFails(scheduled_tasks[k].contact)
        /\ scheduled_tasks[k].is_recurring
        /\ fired[k] >= 1 /\ Executing(k) = {}
        /\ JobsOf(k) # {}

\* C16: the next run time computed from base time b is b plus value minutes,
\* hours, days or weeks for the minutely, hourly, daily and weekly types and
\* b plus 30 * value days for the monthly type, for every positive value.
C16_NextRunTimeIsBasePlusInterval ==
    (result.op = "next_time" /\ result.recurring_type \in RecurringTypes) =>
        /\ ~result.out.raised
        /\ result.out.next_time
              = Some(result.current_time
                       + IntervalMinutes(result.recurring_type, result.recurring_value))

\* C17: a fire of a recurring task never completes leaving the task neither
\* re-armed nor marked executed: once a recurring task has fired and no fire
\* of it is in progress, it has a trigger or is executed (an unknown
\* recurrence type included, which is to be an error and not pass in silence).
C17_UnknownTypeIsNotSilent ==
    \A id \in Ids :
        (scheduled_tasks[id].is_recurring /\ fired[id] >= 1 /\ Executing(id) = {})
            => (JobsOf(id) # {} \/ scheduled_tasks[id].executed)

\* C18: whenever the answer of the language model states a confidence below
\* 0.5, or names no time that can be parsed, parse_time_with_llm returns
\* None, whatever the shape of the answer.
C18_LowConfidenceOrNoTimeIsNotResolved ==
    result.op = "parse_time_with_llm" =>
        LET response == result.response
        IN  (\/ ~IsNull(response.confidence) /\ Val(response.confidence) < ConfidenceThreshold
             \/ IsNull(response.parsed_time)
             \/ response.form = "bad")
                => IsNull(result.out)

\* C20: a deterministic parser never returns, for an expression that does
\* not name today, a time before now (a time that has passed is moved on by
\* a day and is then after now), and a bare time of day whose time today has
\* passed comes back as that time of the next day.
C20_PastTimeAdvancedByOneDay ==
    result.op = "parse_time_from_message" =>
        LET expr == result.expr
            clock == result.clock
        IN  /\ ~result.out.raised
            /\ (expr.kind # "today" /\ ~IsNull(result.out.time))
                  => Val(result.out.time) >= ClockTime(clock)
            /\ (expr.kind = "bare" /\ expr.period = "none" /\ expr.n <= 23
                  /\ At(clock.day, expr.n) < ClockTime(clock))
                  => result.out.time = Some(At(clock.day + 1, expr.n))

\* C19: the language model is asked for a time only if the deterministic
\* parser found none: whenever the parser yields a time, that time is the
\* result of the resolution and the model is not called.
C19_LlmOnlyAfterDeterministicMiss ==
    result.op = "resolve" =>
        /\ result.res.llm_called => IsNull(result.det.time)
        /\ ~IsNull(result.det.time)
              => (result.res.out = result.det.time /\ ~result.res.llm_called)

C19_Witness ==
    /\ result.op = "resolve"
    /\ result.place = "process_message"
    /\ ~IsNull(result.det.time)
    /\ ~IsNull(parse_time_with_llm(result.response))
    /\ parse_time_with_llm(result.response) # result.det.time
    /\ result.res.out = result.det.time

\* C21: every expression with an afternoon or evening qualifier and a stated
\* hour below 12 resolves to the stated hour plus 12, for a bare time of day
\* and after today or tomorrow (then on that day).
C21_QualifierShiftsHourByTwelve ==
    result.op = "parse_time_from_message" =>
        LET expr == result.expr
        IN  (expr.kind \in {"bare", "today", "tomorrow"}
                /\ expr.period \in {"afternoon", "evening"} /\ expr.n < 12)
              => /\ ~result.out.raised
                 /\ ~IsNull(result.out.time)
                 /\ Val(result.out.time) % 24 = expr.n + 12
                 /\ expr.kind = "today"
                       => Val(result.out.time) = At(result.clock.day, expr.n + 12)
                 /\ expr.kind = "tomorrow"
                       => Val(result.out.time) = At(result.clock.day + 1, expr.n + 12)

\* C22: when both stages of the resolution fail for a reminder request (the
\* parser gave no time, the language model was asked and gave none), no task
\* is made and the requester is told that the time could not be understood.
C22_NotResolvedIsToldToRequester ==
    (result.op = "reply" /\ result.res.llm_called /\ IsNull(result.res.out)) =>
        /\ ~result.told.created
        /\ result.told.reply = Some("time_not_understood")

\* C23: whenever no fire of a recurring task is in progress, the task has a
\* trigger whose run time is its stored next_run_time; and within a fire the
\* next_run_time is stored before the new trigger is armed (an execution
\* about to arm finds its time in the row already).
C23_RecurringTriggerAtNextRunTime ==
    \A id \in Ids :
        scheduled_tasks[id].is_recurring =>
            /\ Executing(id) = {}
                  => \E j \in JobsOf(id) : j.run_date = Val(scheduled_tasks[id].next_run_time)
            /\ \A e \in Executing(id) :
                  (e.pc = "rearm" /\ Cardinality(Executing(id)) = 1)
                      => scheduled_tasks[id].next_run_time = e.next_time

\* C24: executed is true only for non-recurring tasks that have fired, and an
\* executed record is final: no step changes a field of it, and it has no
\* trigger, neither now nor after any step.
ExecutedIsFinal ==
    \A id \in Ids :
        scheduled_tasks[id].executed =>
            /\ id \in DOMAIN scheduled_tasks' => scheduled_tasks'[id] = scheduled_tasks[id]
            /\ JobsOf(id)' = {}

C24_ExecutedIsTerminal ==
    /\ [](\A id \in Ids :
            scheduled_tasks[id].executed =>
                /\ ~scheduled_tasks[id].is_recurring
                /\ fired[id] >= 1
                /\ JobsOf(id) = {})
    /\ [][ExecutedIsFinal]_vars

C24_Witness ==
    \E id \in Ids :
        /\ scheduled_tasks[id].executed
        /\ fired[id] >= 1
        /\ now > scheduled_tasks[id].scheduled_time
        /\ \E k \in Ids \ {id} : scheduled_tasks[k].is_recurring /\ fired[k] >= 1 /\ JobsOf(k) # {}

\* C25: outside a fire of the task, the job_id of a row is set only while the
\* job store holds a job of that task with exactly that id.
C25_JobIdNamesLiveTrigger ==
    \A id \in Ids :
        (~IsNull(scheduled_tasks[id].job_id) /\ Executing(id) = {})
            => \E j \in JobsOf(id) : j.id = Val(scheduled_tasks[id].job_id)

\* C26: every task that is not executed has at most one job in the job store,
\* whatever creations, fires with their re-arming, deletions and start-up
\* passes came before.
C26_AtMostOneTriggerPerTask ==
    \A id \in Ids :
        ~scheduled_tasks[id].executed => Cardinality(JobsOf(id)) <= 1

\* a recurring task that has fired and been re-armed, and was then armed by a
\* start-up pass (only the pass writes the id of a later job into the row)
C26_Witness ==
    \E id \in Ids :
        /\ scheduled_tasks[id].is_recurring
        /\ fired[id] >= 1
        /\ \E j \in JobsOf(id) :
              /\ JobsOf(id) = {j}
              /\ j.run_date > scheduled_tasks[id].scheduled_time
              /\ scheduled_tasks[id].job_id = Some(j.id)

\* C27: a delete and a fire of the same task do not mix: once delete_task has
\* removed a task, no step of a fire that was in progress arms a job for it,
\* so the task does not end as a job without a row.
C27_DeleteAndFireDoNotMix ==
    [][\A id \in deleted : JobsOf(id)' \subseteq JobsOf(id)]_vars

\* C28: never more than the pool's 20 jobs execute at once, and a job that
\* came due while the pool was full is run later, not skipped.
C28_PoolBoundedAndNothingDropped ==
    /\ pool.executing <= PoolSize
    /\ pool.skipped = 0

\* C29: a step of a fire adds no row to the table, and the only job it arms
\* is the next one of the task that is firing.
C29_FireTouchesOnlyItsOwnTask ==
    [][Fire =>
          /\ DOMAIN scheduled_tasks' \subseteq DOMAIN scheduled_tasks
          /\ \A k \in jobs' \ jobs :
                \E e \in running : e.pc = "rearm" /\ TaskOf(e) = k.args.task_id]_vars

\* the dates passed to the callback, in the order they were passed
RECURSIVE PassedDates(_)
PassedDates(batches) ==
    IF batches = <<>> THEN <<>> ELSE Head(batches) \o PassedDates(Tail(batches))

\* C30: the dates passed to the callback rise strictly (so no message is
\* passed twice or out of order), and every message newer than the watermark
\* taken at start and not newer than the present watermark has been passed.
C30_FeedPassesEachMessageOnceInOrder ==
    LET passed == PassedDates(delivered)
        initial == IF IsNull(db_thread.initial_date) THEN 0 ELSE Val(db_thread.initial_date)
    IN  /\ \A i, j \in 1..Len(passed) : i < j => passed[i] < passed[j]
        /\ (db_thread.pc = "wait" /\ ~IsNull(db_thread.last_message_date))
              => \A d \in chat_db :
                    (d > initial /\ d <= Val(db_thread.last_message_date))
                        => \E i \in 1..Len(passed) : passed[i] = d

====
